---------------------------- MODULE Spec2Model ----------------------------
(***************************************************************************)
(* A model of the profile component of theodi/css-profile-creation:        *)
(* src/identity/interaction/profile/ProfileHandler.ts.                     *)
(*                                                                         *)
(* The pure functions of the file (validateProfileData,                    *)
(* extractProfileFromQuads, createProfilePatch) are operators computed as  *)
(* the code computes them, over statements (quads) built from RDF terms.   *)
(* Two specifications use them:                                            *)
(*   SpecDiff  draws a target record and an existing statement sequence    *)
(*             and applies the diff builder, the patch and the extractor;  *)
(*   Spec      runs write requests (ProfileHandler.handle) step by step,   *)
(*             one step per await, against one profile document.           *)
(***************************************************************************)
EXTENDS Integers, Sequences, FiniteSets, TLC

(***************************************************************************)
(* Bounds of the model.                                                    *)
(***************************************************************************)
\* Write requests started in one behaviour of Spec.
MaxWrites == 2

(***************************************************************************)
(* Strings.  TLC evaluates Len, SubSeq and \o on strings.                  *)
(***************************************************************************)
\* String.prototype.startsWith
StartsWith(s, p) == Len(s) >= Len(p) /\ SubSeq(s, 1, Len(p)) = p

\* String.prototype.slice(n): the string without its first n characters
Slice(s, n) == SubSeq(s, n + 1, Len(s))

\* String.prototype.includes
Includes(s, sub) ==
    \E i \in 1..(Len(s) - Len(sub) + 1) : SubSeq(s, i, i + Len(sub) - 1) = sub

CharAt(s, i) == SubSeq(s, i, i)

\* position of the first occurrence of the one-character string c, 0 if none
IndexOf(s, c) ==
    IF \E i \in 1..Len(s) : CharAt(s, i) = c
    THEN CHOOSE i \in 1..Len(s) :
            CharAt(s, i) = c /\ \A j \in 1..(i - 1) : CharAt(s, j) # c
    ELSE 0

HexChars == {"0", "1", "2", "3", "4", "5", "6", "7", "8", "9",
             "a", "b", "c", "d", "e", "f", "A", "B", "C", "D", "E", "F"}

AlphaChars == {"a", "b", "c", "d", "e", "f", "g", "h", "i", "j", "k", "l", "m",
               "n", "o", "p", "q", "r", "s", "t", "u", "v", "w", "x", "y", "z",
               "A", "B", "C", "D", "E", "F", "G", "H", "I", "J", "K", "L", "M",
               "N", "O", "P", "Q", "R", "S", "T", "U", "V", "W", "X", "Y", "Z"}

SchemeChars == AlphaChars \cup {"0", "1", "2", "3", "4", "5", "6", "7", "8", "9",
                                "+", "-", "."}

\* schemes for which the URL parser requires a host
SpecialSchemes == {"http", "https", "ftp", "ws", "wss"}

RECURSIVE StripSlashes(_)
StripSlashes(s) ==
    IF Len(s) > 0 /\ CharAt(s, 1) \in {"/", "\\"} THEN StripSlashes(Slice(s, 1)) ELSE s

\* isUrl of the server's StringUtil: whether new URL(s) parses, that is whether
\* s is an absolute URL: a scheme, a colon and, for a special scheme, a host.
isUrl(s) ==
    LET colon == IndexOf(s, ":") IN
    /\ colon > 1
    /\ CharAt(s, 1) \in AlphaChars
    /\ \A i \in 1..(colon - 1) : CharAt(s, i) \in SchemeChars
    /\ SubSeq(s, 1, colon - 1) \in SpecialSchemes
           => Len(StripSlashes(Slice(s, colon))) > 0

Digits == <<"0", "1", "2", "3", "4", "5", "6", "7", "8", "9">>

\* the decimal representation of a natural number below 100
IntStr(n) ==
    IF n < 10 THEN Digits[n + 1] ELSE Digits[(n \div 10) + 1] \o Digits[(n % 10) + 1]

(***************************************************************************)
(* RDF vocabulary namespaces.                                              *)
(***************************************************************************)
FOAF == "http://xmlns.com/foaf/0.1/"
VCARD == "http://www.w3.org/2006/vcard/ns#"
SCHEMA == "http://schema.org/"
SOLID == "http://www.w3.org/ns/solid/terms#"
RDF == "http://www.w3.org/1999/02/22-rdf-syntax-ns#"
ORG == "http://www.w3.org/ns/org#"
RDFS == "http://www.w3.org/2000/01/rdf-schema#"
XSD_STRING == "http://www.w3.org/2001/XMLSchema#string"

(***************************************************************************)
(* RDF terms and statements (DataFactory of n3).  Two terms are equal      *)
(* (Term.equals) when they have the same kind and value, and for literals  *)
(* the same language and datatype: that is equality of these records.      *)
(***************************************************************************)
namedNode(iri) ==
    [termType |-> "NamedNode", value |-> iri, language |-> "", datatype |-> ""]

literal(text) ==
    [termType |-> "Literal", value |-> text, language |-> "", datatype |-> XSD_STRING]

langLiteral(text, lang) ==
    [termType |-> "Literal", value |-> text, language |-> lang,
     datatype |-> RDF \o "langString"]

\* DataFactory.blankNode(): the n-th anonymous node the process has generated
blankNode(n) ==
    [termType |-> "BlankNode", value |-> "n3-" \o IntStr(n), language |-> "",
     datatype |-> ""]

quad(s, p, o) == [subject |-> s, predicate |-> p, object |-> o]

Range(seq) == {seq[i] : i \in 1..Len(seq)}

RECURSIVE Flatten(_)
Flatten(seqs) == IF seqs = <<>> THEN <<>> ELSE Head(seqs) \o Flatten(Tail(seqs))

(***************************************************************************)
(* JSON values of a profile record.  t is the JavaScript type of the       *)
(* value, v its text (strings, numbers) and a its entries (arrays).        *)
(***************************************************************************)
Undef == [t |-> "undefined", v |-> "", a |-> <<>>]
Null == [t |-> "null", v |-> "", a |-> <<>>]
Str(s) == [t |-> "string", v |-> s, a |-> <<>>]
Num(s) == [t |-> "number", v |-> s, a |-> <<>>]
Arr(entries) == [t |-> "array", v |-> "", a |-> entries]

\* JavaScript truthiness: if (x)
Truthy(j) ==
    \/ j.t = "string" /\ j.v # ""
    \/ j.t = "number" /\ j.v # "0"
    \/ j.t = "array"

\* the ProfileData type: a record with every field undefined
EmptyProfile ==
    [profileBackgroundColor |-> Undef, profileHighlightColor |-> Undef,
     name |-> Undef, nickname |-> Undef, email |-> Undef, phone |-> Undef,
     knows |-> Undef,
     preferredSubjectPronoun |-> Undef, preferredObjectPronoun |-> Undef,
     preferredRelativePronoun |-> Undef,
     photo |-> Undef, homepage |-> Undef, knowsLanguage |-> Undef,
     accounts |-> Undef, skills |-> Undef, organizations |-> Undef]

\* an entry of ProfileData.accounts with its optional fields undefined
Account(type, accountName) ==
    [type |-> Str(type), accountName |-> Str(accountName),
     accountServiceHomepage |-> Undef, icon |-> Undef, label |-> Undef]

\* an entry of ProfileData.organizations with every field undefined
EmptyOrg ==
    [organization |-> Undef, organizationName |-> Undef, role |-> Undef,
     startDate |-> Undef, endDate |-> Undef, description |-> Undef,
     roleType |-> Undef]

(***************************************************************************)
(* validateProfileData.  data is the request's JSON value: type is its     *)
(* JavaScript type and fields its fields read as a profile record (fields  *)
(* the value does not carry are undefined).                                *)
(***************************************************************************)
ErrIf(cond, msg) == IF cond THEN <<msg>> ELSE <<>>

\* /^#[\da-f]{6}$/i
IsHexColor(s) ==
    /\ Len(s) = 7
    /\ CharAt(s, 1) = "#"
    /\ \A i \in 2..7 : CharAt(s, i) \in HexChars

ImageSubtypes == {"jpeg", "jpg", "png", "gif", "webp"}

\* /^data:image\/(jpeg|jpg|png|gif|webp);base64,/
IsBase64Image(s) ==
    \E f \in ImageSubtypes : StartsWith(s, "data:image/" \o f \o ";base64,")

IsPresent(j) == j.t # "undefined" /\ j.t # "null" /\ ~(j.t = "string" /\ j.v = "")

\* validateProfileData returning at the first violation it finds
validateProfileData_FirstError(data) ==
    IF data.type \notin {"object", "array"}
    THEN [valid |-> FALSE, errors |-> <<"Profile data must be an object">>]
    ELSE
    LET profile == data.fields
        errors ==
            ErrIf(profile.profileBackgroundColor.t # "undefined"
                    /\ (profile.profileBackgroundColor.t # "string"
                        \/ ~IsHexColor(profile.profileBackgroundColor.v)),
                  "profileBackgroundColor must be a valid hex color (e.g., #ffffff)")
            \o ErrIf(profile.profileHighlightColor.t # "undefined"
                    /\ (profile.profileHighlightColor.t # "string"
                        \/ ~IsHexColor(profile.profileHighlightColor.v)),
                  "profileHighlightColor must be a valid hex color (e.g., #000000)")
            \o ErrIf(IsPresent(profile.photo) /\ profile.photo.t = "string"
                    /\ ~isUrl(profile.photo.v) /\ ~IsBase64Image(profile.photo.v),
                  "photo must be a valid URL or base64 data URI (data:image/...;base64,...)")
            \o ErrIf(IsPresent(profile.photo) /\ profile.photo.t # "string",
                  "photo must be a string")
            \o ErrIf(IsPresent(profile.homepage)
                    /\ (profile.homepage.t # "string" \/ ~isUrl(profile.homepage.v)),
                  "homepage must be a valid URL")
            \o ErrIf(profile.knowsLanguage.t \notin {"undefined", "array"},
                  "knowsLanguage must be an array")
            \o ErrIf(profile.skills.t \notin {"undefined", "array"},
                  "skills must be an array")
            \o ErrIf(profile.accounts.t \notin {"undefined", "array"},
                  "accounts must be an array")
            \o ErrIf(profile.organizations.t \notin {"undefined", "array"},
                  "organizations must be an array")
            \o ErrIf(profile.knows.t \notin {"undefined", "array"},
                  "knows must be an array")
            \o ErrIf(IsPresent(profile.phone) /\ profile.phone.t # "string",
                  "phone must be a string")
            \o (IF profile.knows.t = "array"
                THEN LET bad == SelectSeq(profile.knows.a,
                                    LAMBDA w : w.t # "string" \/ ~isUrl(w.v))
                     IN [i \in 1..Len(bad) |->
                            "Invalid WebID in knows array: " \o bad[i].v]
                ELSE <<>>)
    IN [valid |-> Len(errors) = 0,
        errors |-> IF Len(errors) > 0 THEN << errors[1] >> ELSE <<>>]

validateProfileData(data) ==
    IF data.type \notin {"object", "array"}
    THEN [valid |-> FALSE, errors |-> <<"Profile data must be an object">>]
    ELSE
    LET profile == data.fields
        knowsErrors ==
            IF profile.knows.t = "array"
            THEN LET bad == SelectSeq(profile.knows.a,
                                LAMBDA w : w.t # "string" \/ ~isUrl(w.v))
                 IN [i \in 1..Len(bad) |->
                        "Invalid WebID in knows array: " \o bad[i].v]
            ELSE <<>>
        errors ==
            ErrIf(profile.profileBackgroundColor.t # "undefined"
                    /\ (profile.profileBackgroundColor.t # "string"
                        \/ ~IsHexColor(profile.profileBackgroundColor.v)),
                  "profileBackgroundColor must be a valid hex color (e.g., #ffffff)")
            \o ErrIf(profile.profileHighlightColor.t # "undefined"
                    /\ (profile.profileHighlightColor.t # "string"
                        \/ ~IsHexColor(profile.profileHighlightColor.v)),
                  "profileHighlightColor must be a valid hex color (e.g., #000000)")
            \o ErrIf(IsPresent(profile.photo) /\ profile.photo.t = "string"
                    /\ ~isUrl(profile.photo.v) /\ ~IsBase64Image(profile.photo.v),
                  "photo must be a valid URL or base64 data URI (data:image/...;base64,...)")
            \o ErrIf(IsPresent(profile.photo) /\ profile.photo.t # "string",
                  "photo must be a string")
            \o ErrIf(IsPresent(profile.homepage)
                    /\ (profile.homepage.t # "string" \/ ~isUrl(profile.homepage.v)),
                  "homepage must be a valid URL")
            \o ErrIf(profile.knowsLanguage.t \notin {"undefined", "array"},
                  "knowsLanguage must be an array")
            \o ErrIf(profile.skills.t \notin {"undefined", "array"},
                  "skills must be an array")
            \o ErrIf(profile.accounts.t \notin {"undefined", "array"},
                  "accounts must be an array")
            \o ErrIf(profile.organizations.t \notin {"undefined", "array"},
                  "organizations must be an array")
            \o ErrIf(profile.knows.t \notin {"undefined", "array"},
                  "knows must be an array")
            \o ErrIf(IsPresent(profile.phone) /\ profile.phone.t # "string",
                  "phone must be a string")
            \o knowsErrors
    IN [valid |-> Len(errors) = 0, errors |-> errors]

(***************************************************************************)
(* extractProfileFromQuads.                                                *)
(***************************************************************************)
\* one iteration of the first loop: the statement q dispatched on its predicate
ExtractQuad(profile, q, webId) ==
    LET predicate == q.predicate.value
        object == q.object
        push(old) == IF Truthy(old) THEN Arr(Append(old.a, Str(object.value)))
                     ELSE Arr(<<Str(object.value)>>)
    IN
    IF q.subject # namedNode(webId) THEN profile
    ELSE IF predicate = SOLID \o "profileBackgroundColor"
        THEN [profile EXCEPT !.profileBackgroundColor = Str(object.value)]
    ELSE IF predicate = SOLID \o "profileHighlightColor"
        THEN [profile EXCEPT !.profileHighlightColor = Str(object.value)]
    ELSE IF predicate = FOAF \o "name"
        THEN [profile EXCEPT !.name = Str(object.value)]
    ELSE IF predicate = FOAF \o "nick"
        THEN [profile EXCEPT !.nickname = Str(object.value)]
    ELSE IF predicate = FOAF \o "mbox" \/ predicate = VCARD \o "hasEmail"
        THEN IF StartsWith(object.value, "mailto:")
             THEN [profile EXCEPT !.email = Str(Slice(object.value, 7))]
             ELSE [profile EXCEPT !.email = Str(object.value)]
    ELSE IF predicate = VCARD \o "hasTelephone"
        THEN [profile EXCEPT !.phone = Str(object.value)]
    ELSE IF predicate = FOAF \o "knows"
        THEN [profile EXCEPT !.knows = push(@)]
    ELSE IF predicate = SOLID \o "preferredSubjectPronoun"
        THEN [profile EXCEPT !.preferredSubjectPronoun = Str(object.value)]
    ELSE IF predicate = SOLID \o "preferredObjectPronoun"
        THEN [profile EXCEPT !.preferredObjectPronoun = Str(object.value)]
    ELSE IF predicate = SOLID \o "preferredRelativePronoun"
        THEN [profile EXCEPT !.preferredRelativePronoun = Str(object.value)]
    ELSE IF predicate = VCARD \o "hasPhoto" \/ predicate = FOAF \o "img"
            \/ predicate = FOAF \o "depiction"
        THEN [profile EXCEPT !.photo = Str(object.value)]
    ELSE IF predicate = FOAF \o "homepage"
        THEN [profile EXCEPT !.homepage = Str(object.value)]
    ELSE IF predicate = SCHEMA \o "knowsLanguage"
        THEN [profile EXCEPT !.knowsLanguage = push(@)]
    ELSE IF predicate = SCHEMA \o "skills"
        THEN [profile EXCEPT !.skills = push(@)]
    ELSE profile

RECURSIVE ExtractLoop(_, _, _, _)
ExtractLoop(quads, i, webId, profile) ==
    IF i > Len(quads) THEN profile
    ELSE ExtractLoop(quads, i + 1, webId, ExtractQuad(profile, quads[i], webId))

\* a sequence without its repeated entries, first occurrences kept in order
\* (the insertion order of a Set)
RECURSIVE Dedup(_)
Dedup(seq) ==
    IF seq = <<>> THEN <<>>
    ELSE LET init == Dedup(SubSeq(seq, 1, Len(seq) - 1))
             last == seq[Len(seq)]
         IN IF last \in Range(init) THEN init ELSE Append(init, last)

\* roleNodes: the subject values of the statements (r, org:member, webId)
RoleNodes(quads, webId) ==
    LET member == SelectSeq(quads, LAMBDA q :
                      q.predicate.value = ORG \o "member" /\ q.object = namedNode(webId))
    IN Dedup([i \in 1..Len(member) |-> member[i].subject.value])

\* one iteration of the loop over the statements of a role node
RoleQuad(orgEntry, q, quads, roleNode) ==
    LET predicate == q.predicate.value
        object == q.object
        names == SelectSeq(quads, LAMBDA o :
                     o.subject = object /\ o.predicate.value = SCHEMA \o "name")
    IN
    IF q.subject # roleNode THEN orgEntry
    ELSE IF predicate = ORG \o "organization"
        THEN IF object.termType = "NamedNode"
             THEN [orgEntry EXCEPT !.organization = Str(object.value)]
             ELSE IF object.termType = "BlankNode" /\ Len(names) > 0
             THEN [orgEntry EXCEPT !.organizationName = Str(names[1].object.value)]
             ELSE orgEntry
    ELSE IF predicate = VCARD \o "role"
        THEN [orgEntry EXCEPT !.role = Str(object.value)]
    ELSE IF predicate = SCHEMA \o "startDate"
        THEN [orgEntry EXCEPT !.startDate = Str(object.value)]
    ELSE IF predicate = SCHEMA \o "endDate"
        THEN [orgEntry EXCEPT !.endDate = Str(object.value)]
    ELSE IF predicate = SCHEMA \o "description"
        THEN [orgEntry EXCEPT !.description = Str(object.value)]
    ELSE IF predicate = RDF \o "type"
        THEN IF Includes(object.value, "CurrentRole")
             THEN [orgEntry EXCEPT !.roleType = Str("CurrentRole")]
             ELSE IF Includes(object.value, "PastRole")
             THEN [orgEntry EXCEPT !.roleType = Str("PastRole")]
             ELSE IF Includes(object.value, "FutureRole")
             THEN [orgEntry EXCEPT !.roleType = Str("FutureRole")]
             ELSE orgEntry
    ELSE orgEntry

RECURSIVE RoleLoop(_, _, _, _)
RoleLoop(quads, i, roleNode, orgEntry) ==
    IF i > Len(quads) THEN orgEntry
    ELSE RoleLoop(quads, i + 1, roleNode, RoleQuad(orgEntry, quads[i], quads, roleNode))

extractProfileFromQuads(quads, webId) ==
    LET profile == ExtractLoop(quads, 1, webId, EmptyProfile)
        roleNodes == RoleNodes(quads, webId)
        \* the role node is looked up again as a named node of the same value
        entries == [i \in 1..Len(roleNodes) |->
                       RoleLoop(quads, 1, namedNode(roleNodes[i]), EmptyOrg)]
        kept == SelectSeq(entries, LAMBDA e :
                    Truthy(e.organization) \/ Truthy(e.organizationName)
                        \/ Truthy(e.role))
    IN IF Len(roleNodes) > 0
       THEN [profile EXCEPT !.organizations = Arr(kept)]
       ELSE profile

(***************************************************************************)
(* createProfilePatch.  blankCounter is the number of anonymous nodes      *)
(* DataFactory.blankNode() has handed out so far: the next one is          *)
(* blankNode(blankCounter).                                                *)
(***************************************************************************)
\* the properties table: predicate and target value, in the code's order
Properties(profile) ==
    << [predicate |-> SOLID \o "profileBackgroundColor", value |-> profile.profileBackgroundColor],
       [predicate |-> SOLID \o "profileHighlightColor", value |-> profile.profileHighlightColor],
       [predicate |-> FOAF \o "name", value |-> profile.name],
       [predicate |-> FOAF \o "nick", value |-> profile.nickname],
       [predicate |-> VCARD \o "hasTelephone", value |-> profile.phone],
       [predicate |-> SOLID \o "preferredSubjectPronoun", value |-> profile.preferredSubjectPronoun],
       [predicate |-> SOLID \o "preferredObjectPronoun", value |-> profile.preferredObjectPronoun],
       [predicate |-> SOLID \o "preferredRelativePronoun", value |-> profile.preferredRelativePronoun],
       [predicate |-> VCARD \o "hasPhoto", value |-> profile.photo],
       [predicate |-> FOAF \o "homepage", value |-> profile.homepage],
       [predicate |-> SCHEMA \o "knowsLanguage", value |-> profile.knowsLanguage],
       [predicate |-> SCHEMA \o "skills", value |-> profile.skills],
       [predicate |-> FOAF \o "knows", value |-> profile.knows] >>

\* ExistingOf leaving the loop at its first match (a break after the push)
ExistingOf_FirstOnly(existingQuads, webIdNode, predNode) ==
    LET all == SelectSeq(existingQuads,
                   LAMBDA q : q.subject = webIdNode /\ q.predicate = predNode)
    IN IF Len(all) > 0 THEN << all[1] >> ELSE <<>>

\* ExistingOf without the test of the subject
ExistingOf_AnySubject(existingQuads, webIdNode, predNode) ==
    SelectSeq(existingQuads, LAMBDA q : q.predicate = predNode)

\* the existing statements with this subject and predicate, in document order
ExistingOf(existingQuads, webIdNode, predNode) ==
    SelectSeq(existingQuads, LAMBDA q : q.subject = webIdNode /\ q.predicate = predNode)

\* "Handle email separately": at most one foaf:mbox statement, a mailto: URI
EmailInserts(webIdNode, profile) ==
    IF Truthy(profile.email)
    THEN LET emailUri == IF StartsWith(profile.email.v, "mailto:")
                         THEN profile.email.v
                         ELSE "mailto:" \o profile.email.v
         IN << quad(webIdNode, namedNode(FOAF \o "mbox"), namedNode(emailUri)) >>
    ELSE <<>>

\* "Handle contacts/friends": one foaf:knows statement per truthy entry
KnowsInserts(webIdNode, profile) ==
    IF Truthy(profile.knows)
    THEN LET kept == SelectSeq(profile.knows.a, Truthy)
         IN [i \in 1..Len(kept) |->
                quad(webIdNode, namedNode(FOAF \o "knows"), namedNode(kept[i].v))]
    ELSE <<>>

\* PropertyInserts without the test value !== ''
PropertyInserts_EmptyString(webIdNode, predNode, value) ==
    IF value.t # "undefined" /\ value.t # "null"
    THEN IF value.t = "array"
         THEN LET kept == SelectSeq(value.a, Truthy)
              IN [i \in 1..Len(kept) |-> quad(webIdNode, predNode, namedNode(kept[i].v))]
         ELSE << quad(webIdNode, predNode, literal(value.v)) >>
    ELSE <<>>

\* "Insert new values": the insertions of one row of the properties table
PropertyInserts(webIdNode, predNode, value) ==
    IF IsPresent(value)
    THEN IF value.t = "array"
         THEN LET kept == SelectSeq(value.a, Truthy)
              IN [i \in 1..Len(kept) |-> quad(webIdNode, predNode, namedNode(kept[i].v))]
         ELSE << quad(webIdNode, predNode, literal(value.v)) >>
    ELSE <<>>

\* the statements of one target account, on the anonymous node accountNode
AccountInserts(webIdNode, account, accountNode) ==
    << quad(webIdNode, namedNode(FOAF \o "account"), accountNode),
       quad(accountNode, namedNode(RDF \o "type"), namedNode(FOAF \o "Account")),
       quad(accountNode, namedNode(FOAF \o "accountName"), literal(account.accountName.v)) >>
    \o (IF Truthy(account.accountServiceHomepage)
        THEN << quad(accountNode, namedNode(FOAF \o "accountServiceHomepage"),
                     namedNode(account.accountServiceHomepage.v)) >>
        ELSE <<>>)
    \o (IF Truthy(account.icon)
        THEN << quad(accountNode, namedNode(FOAF \o "icon"), namedNode(account.icon.v)) >>
        ELSE <<>>)
    \o (IF Truthy(account.label)
        THEN << quad(accountNode, namedNode(RDFS \o "label"), literal(account.label.v)) >>
        ELSE <<>>)

\* whether a target organization gets an anonymous organization node
NeedsOrgNode(org) ==
    LET orgValue == IF Truthy(org.organization) THEN org.organization
                    ELSE org.organizationName
    IN Truthy(orgValue) /\ ~isUrl(orgValue.v)

\* the statements of one target organization: roleNode is blankNode(n) and
\* the anonymous organization node, when one is needed, blankNode(n + 1)
OrganizationInserts(webIdNode, org, n) ==
    LET roleNode == blankNode(n)
        orgNode == blankNode(n + 1)
        orgValue == IF Truthy(org.organization) THEN org.organization
                    ELSE org.organizationName
        opt(value, predicate) ==
            IF Truthy(value) THEN << quad(roleNode, namedNode(predicate), literal(value.v)) >>
            ELSE <<>>
    IN << quad(roleNode, namedNode(ORG \o "member"), webIdNode) >>
       \o (IF ~Truthy(orgValue) THEN <<>>
           ELSE IF isUrl(orgValue.v)
           THEN << quad(roleNode, namedNode(ORG \o "organization"), namedNode(orgValue.v)) >>
           ELSE << quad(roleNode, namedNode(ORG \o "organization"), orgNode),
                   quad(orgNode, namedNode(SCHEMA \o "name"), literal(orgValue.v)),
                   quad(orgNode, namedNode(RDF \o "type"),
                        namedNode(SCHEMA \o "Organization")) >>)
       \o opt(org.role, VCARD \o "role")
       \o opt(org.startDate, SCHEMA \o "startDate")
       \o opt(org.endDate, SCHEMA \o "endDate")
       \o opt(org.description, SCHEMA \o "description")
       \o (IF Truthy(org.roleType)
           THEN << quad(roleNode, namedNode(RDF \o "type"),
                        namedNode(SOLID \o org.roleType.v)) >>
           ELSE <<>>)

\* the loop over profile.organizations from entry i on, n anonymous nodes used
RECURSIVE OrganizationsLoop(_, _, _, _)
OrganizationsLoop(webIdNode, orgs, i, n) ==
    IF i > Len(orgs) THEN [inserts |-> <<>>, blankCounter |-> n]
    ELSE LET used == IF NeedsOrgNode(orgs[i]) THEN 2 ELSE 1
             rest == OrganizationsLoop(webIdNode, orgs, i + 1, n + used)
         IN [inserts |-> OrganizationInserts(webIdNode, orgs[i], n) \o rest.inserts,
             blankCounter |-> rest.blankCounter]

createProfilePatch(webId, profile, existingQuads, blankCounter) ==
    LET webIdNode == namedNode(webId)
        properties == Properties(profile)
        accounts == IF Truthy(profile.accounts) THEN profile.accounts.a ELSE <<>>
        orgs == IF Truthy(profile.organizations) THEN profile.organizations.a ELSE <<>>
        orgPart == OrganizationsLoop(webIdNode, orgs, 1, blankCounter + Len(accounts))
    IN [deletes |->
            ExistingOf(existingQuads, webIdNode, namedNode(FOAF \o "mbox"))
            \o ExistingOf(existingQuads, webIdNode, namedNode(FOAF \o "knows"))
            \o Flatten([i \in 1..Len(properties) |->
                   ExistingOf(existingQuads, webIdNode, namedNode(properties[i].predicate))])
            \o ExistingOf(existingQuads, webIdNode, namedNode(FOAF \o "account")),
        inserts |->
            EmailInserts(webIdNode, profile)
            \o KnowsInserts(webIdNode, profile)
            \o Flatten([i \in 1..Len(properties) |->
                   PropertyInserts(webIdNode, namedNode(properties[i].predicate),
                                   properties[i].value)])
            \o Flatten([i \in 1..Len(accounts) |->
                   AccountInserts(webIdNode, accounts[i], blankNode(blankCounter + i - 1))])
            \o orgPart.inserts,
        conditions |-> <<>>,
        blankCounter |-> orgPart.blankCounter]

(***************************************************************************)
(* The document store's patch, as the handler uses it.                     *)
(***************************************************************************)
\* modifyResource with an N3Patch: the document's statements are a set; the
\* deletions are removed from it and the insertions added to it
ApplyPatch(document, patch) ==
    LET kept == SelectSeq(Dedup(document), LAMBDA q : q \notin Range(patch.deletes))
        added == SelectSeq(Dedup(patch.inserts), LAMBDA q : q \notin Range(kept))
    IN kept \o added

(***************************************************************************)
(* createN3PatchString.                                                    *)
(***************************************************************************)
\* a variable of a patch condition
variable(name) ==
    [termType |-> "Variable", value |-> name, language |-> "", datatype |-> ""]

\* escapeString: backslash, quote, line feed, carriage return and tab escaped
RECURSIVE escapeString(_)
escapeString(str) ==
    IF Len(str) = 0 THEN ""
    ELSE LET c == CharAt(str, 1)
             e == IF c = "\\" THEN "\\\\"
                  ELSE IF c = "\"" THEN "\\\""
                  ELSE IF c = "\n" THEN "\\n"
                  ELSE IF c = "\r" THEN "\\r"
                  ELSE IF c = "\t" THEN "\\t"
                  ELSE c
         IN e \o escapeString(Slice(str, 1))

termToString(term) ==
    IF term.termType = "NamedNode" THEN "<" \o term.value \o ">"
    ELSE IF term.termType = "Literal"
         THEN IF term.language # ""
              THEN "\"" \o escapeString(term.value) \o "\"@" \o term.language
              ELSE IF term.datatype # ""
              THEN "\"" \o escapeString(term.value) \o "\"^^<" \o term.datatype \o ">"
              ELSE "\"" \o escapeString(term.value) \o "\""
    ELSE IF term.termType = "BlankNode"
         THEN "_:" \o (IF StartsWith(term.value, "b") THEN Slice(term.value, 1)
                       ELSE term.value)
    ELSE IF term.termType = "Variable" THEN "?" \o term.value
    ELSE term.value

quadToString(q) ==
    termToString(q.subject) \o " " \o termToString(q.predicate) \o " "
        \o termToString(q.object)

\* the statements of a block, each indented and terminated by a period
RECURSIVE StatementLines(_)
StatementLines(quads) ==
    IF quads = <<>> THEN ""
    ELSE "    " \o quadToString(Head(quads)) \o ".\n" \o StatementLines(Tail(quads))

\* one block of the patch, or no part when it has no statements
PatchPart(keyword, quads) ==
    IF Len(quads) > 0
    THEN << "  solid:" \o keyword \o " {\n" \o StatementLines(quads) \o "  }" >>
    ELSE <<>>

\* parts.join(sep)
RECURSIVE JoinParts(_, _)
JoinParts(parts, sep) ==
    IF Len(parts) = 0 THEN ""
    ELSE IF Len(parts) = 1 THEN parts[1]
    ELSE parts[1] \o sep \o JoinParts(Tail(parts), sep)

N3Prefixes ==
    "@prefix solid: <" \o SOLID \o ">.\n@prefix rdf: <" \o RDF \o ">.\n\n"

\* createN3PatchString with the insertions block before the deletions block
createN3PatchString_InsertsFirst(deletes, inserts, conds) ==
    LET parts == PatchPart("inserts", inserts) \o PatchPart("deletes", deletes)
                     \o PatchPart("where", conds)
        head == N3Prefixes \o "<> a solid:InsertDeletePatch"
    IN IF Len(parts) > 0 THEN head \o ";\n" \o JoinParts(parts, ";\n") \o "."
       ELSE head \o "."

createN3PatchString(deletes, inserts, conds) ==
    LET parts == PatchPart("deletes", deletes) \o PatchPart("inserts", inserts)
                     \o PatchPart("where", conds)
        head == N3Prefixes \o "<> a solid:InsertDeletePatch"
    IN IF Len(parts) > 0 THEN head \o ";\n" \o JoinParts(parts, ";\n") \o "."
       ELSE head \o "."

(***************************************************************************)
(* State.                                                                  *)
(***************************************************************************)
VARIABLES
    \* SpecDiff: the pure functions applied to drawn inputs
    phase,          \* "input", "diffed", "patched", "rediffed" or "extracted"
    target,         \* the target profile record
    existing,       \* the statements currently in the document, in order
    patch,          \* createProfilePatch(WebId, target, existing)
    patched,        \* the document after the patch was applied
    patch2,         \* createProfilePatch(WebId, target, patched)
    extracted,      \* extractProfileFromQuads(patch.inserts, WebId)
    \* Spec: the collaborators of the handler
    docExists,      \* whether the store holds the profile document
    docQuads,       \* the statements of the profile document, in order
    images,         \* the paths of the image resources the store holds
    hasLink,        \* webIdStore: whether the account has a linked WebID
    accountEmail,   \* passwordStore: the account's email, "" when it has no login
    blankCounter,   \* the anonymous nodes DataFactory.blankNode() has generated
    uuidCounter,    \* the identifiers v4() has generated
    \* Spec: the write requests (calls of handle), by request number
    pc,             \* the await a request is suspended at, or idle/done/failed
    json,           \* the request's input
    email,          \* accountEmail of handle
    photoUrl,       \* photoUrl of handle
    existingQuads,  \* existingQuads of handle
    documentExists, \* documentExists of handle
    pending,        \* the document mutation handle has prepared
    calls,          \* the calls of the resource store the request has made
    response,       \* what the request returned or threw
    \* Spec: the read request (call of getView)
    viewPc,         \* the await getView is suspended at, or idle/done/failed
    viewEmail,      \* email of getView
    viewCalls,      \* the calls of the resource store getView has made
    viewResult,     \* what getView returned or threw
    \* SpecDiff: the serialised patch
    conditions,     \* the conditions given to createN3PatchString
    n3,             \* createN3PatchString(patch.deletes, patch.inserts, conditions)
    \* SpecValidate: the validator applied to drawn inputs
    candidate,      \* the candidate value
    verdict         \* validateProfileData(candidate)

diffVars == <<phase, target, existing, patch, patched, patch2, extracted,
              conditions, n3, candidate, verdict>>

storeVars == <<docExists, docQuads, images, hasLink, accountEmail, blankCounter,
               uuidCounter>>

requestVars == <<pc, json, email, photoUrl, existingQuads, documentExists, pending,
                 calls, response>>

viewVars == <<viewPc, viewEmail, viewCalls, viewResult>>

handlerVars == <<storeVars, requestVars, viewVars>>

vars == <<diffVars, handlerVars>>

\* the identity URI (WebID) of the account and other terms of the inputs
WebId == "https://alice.example/profile/card#me"
OtherId == "https://bob.example/profile/card#me"
OrgUri == "http://org.example/"

EmptyPatch == [deletes |-> <<>>, inserts |-> <<>>, conditions |-> <<>>, blankCounter |-> 0]

(***************************************************************************)
(* SpecDiff: inputs.                                                       *)
(***************************************************************************)
\* target records
DiffTargets ==
    { EmptyProfile,
      [EmptyProfile EXCEPT !.name = Str("Bob")],
      [EmptyProfile EXCEPT !.name = Str("Bob"), !.nickname = Str(""), !.phone = Null],
      [EmptyProfile EXCEPT !.knows = Arr(<<Str(OtherId)>>)],
      [EmptyProfile EXCEPT !.knowsLanguage = Arr(<<Str(""), Str("https://lang.example/en")>>),
                           !.skills = Arr(<<Str("https://skill.example/tla"),
                                            Str("https://skill.example/ts")>>)],
      [EmptyProfile EXCEPT !.accounts =
          Arr(<< [Account("Twitter", "alice") EXCEPT
                     !.accountServiceHomepage = Str("https://twitter.example/")] >>)],
      [EmptyProfile EXCEPT !.organizations =
          Arr(<< [EmptyOrg EXCEPT !.organization = Str(OrgUri), !.role = Str("Engineer")] >>)],
      [EmptyProfile EXCEPT !.organizations =
          Arr(<< [EmptyOrg EXCEPT !.organizationName = Str("Acme"),
                                  !.roleType = Str("CurrentRole")] >>)],
      [EmptyProfile EXCEPT !.email = Str("alice@example.org"), !.nickname = Str("Al")],
      [EmptyProfile EXCEPT !.profileBackgroundColor = Str("#AA00ff"),
                           !.profileHighlightColor = Str("#000000"),
                           !.phone = Str("+44 20 0000"),
                           !.preferredSubjectPronoun = Str("she"),
                           !.preferredObjectPronoun = Str("her"),
                           !.preferredRelativePronoun = Str("hers"),
                           !.photo = Str("https://alice.example/me.png"),
                           !.homepage = Str("https://alice.example/")] }

S == namedNode(WebId)

AliceName == quad(S, namedNode(FOAF \o "name"), literal("Alice"))

\* an anonymous role node with its member, organization and role statements
RoleExample ==
    << quad(blankNode(93), namedNode(ORG \o "member"), S),
       quad(blankNode(93), namedNode(ORG \o "organization"), namedNode(OrgUri)),
       quad(blankNode(93), namedNode(VCARD \o "role"), literal("Engineer")) >>

\* the condition sequences given to the serialiser
PatchConditions ==
    { <<>>,
      << quad(variable("person"), namedNode(FOAF \o "name"),
              literal("Al \"the\" ice")) >> }

\* existing statement sequences: managed and unmanaged statements of the
\* subject, statements of other subjects, anonymous account and role nodes
DiffExisting ==
    { <<>>,
      << AliceName >>,
      << AliceName,
         quad(S, namedNode(FOAF \o "nick"), literal("AL")),
         quad(S, namedNode(RDF \o "type"), namedNode(FOAF \o "Person")),
         quad(namedNode(OtherId), namedNode(FOAF \o "name"), literal("Zed")) >>,
      << quad(S, namedNode(FOAF \o "name"), langLiteral("Alicia", "es")),
         AliceName,
         quad(S, namedNode(FOAF \o "knows"), namedNode(OtherId)),
         quad(S, namedNode(FOAF \o "mbox"), namedNode("mailto:old@example.org")),
         quad(S, namedNode(VCARD \o "hasEmail"), namedNode("mailto:v@example.org")),
         quad(S, namedNode(FOAF \o "account"), blankNode(90)),
         quad(blankNode(90), namedNode(FOAF \o "accountName"), literal("old")),
         quad(blankNode(91), namedNode(ORG \o "member"), S),
         quad(blankNode(91), namedNode(VCARD \o "role"), literal("Intern")),
         quad(blankNode(92), namedNode(FOAF \o "name"), literal("Anon")),
         quad(S, namedNode(SCHEMA \o "skills"), namedNode("https://skill.example/old")) >>,
      RoleExample }

(***************************************************************************)
(* The requests before any has started.                                    *)
(***************************************************************************)
Requests == 1..MaxWrites

NoData == [type |-> "undefined", fields |-> EmptyProfile]

NoCall == [op |-> "none", path |-> "", deletes |-> <<>>, inserts |-> <<>>]

NoResponse == [status |-> "none", message |-> "", profile |-> EmptyProfile]

\* what getView returns or throws
NoView == [status |-> "none", message |-> "", webId |-> "", profile |-> EmptyProfile]

NoValidation == [valid |-> FALSE, errors |-> <<>>]

NoRequests ==
    /\ viewPc = "idle"
    /\ viewEmail = Undef
    /\ viewCalls = <<>>
    /\ viewResult = NoView
    /\ pc = [r \in Requests |-> "idle"]
    /\ json = [r \in Requests |-> NoData]
    /\ email = [r \in Requests |-> Undef]
    /\ photoUrl = [r \in Requests |-> Undef]
    /\ existingQuads = [r \in Requests |-> <<>>]
    /\ documentExists = [r \in Requests |-> FALSE]
    /\ pending = [r \in Requests |-> NoCall]
    /\ calls = [r \in Requests |-> <<>>]
    /\ response = [r \in Requests |-> NoResponse]

(***************************************************************************)
(* SpecDiff: one action per function application.                          *)
(***************************************************************************)
InitDiff ==
    /\ phase = "input"
    /\ target \in DiffTargets
    /\ existing \in DiffExisting
    /\ patch = EmptyPatch
    /\ patched = <<>>
    /\ patch2 = EmptyPatch
    /\ extracted = EmptyProfile
    /\ conditions = <<>>
    /\ n3 = ""
    /\ candidate = NoData
    /\ verdict = NoValidation
    /\ NoRequests
    /\ docExists = FALSE /\ docQuads = <<>> /\ images = {}
    /\ hasLink = TRUE /\ accountEmail = ""
    /\ blankCounter = 0 /\ uuidCounter = 0

\* createProfilePatch(WebId, target, existing)
Diff ==
    /\ phase = "input"
    /\ patch' = createProfilePatch(WebId, target, existing, 0)
    /\ phase' = "diffed"
    /\ UNCHANGED <<target, existing, patched, patch2, extracted,
                   conditions, n3, candidate, verdict>>
    /\ UNCHANGED handlerVars

\* the patch applied to the document it was computed against
Patch ==
    /\ phase = "diffed"
    /\ patched' = ApplyPatch(existing, patch)
    /\ phase' = "patched"
    /\ UNCHANGED <<target, existing, patch, patch2, extracted,
                   conditions, n3, candidate, verdict>>
    /\ UNCHANGED handlerVars

\* createProfilePatch(WebId, target, patched): the diff of the same record
\* against the result of the first
Rediff ==
    /\ phase = "patched"
    /\ patch2' = createProfilePatch(WebId, target, patched, patch.blankCounter)
    /\ phase' = "rediffed"
    /\ UNCHANGED <<target, existing, patch, patched, extracted,
                   conditions, n3, candidate, verdict>>
    /\ UNCHANGED handlerVars

\* extractProfileFromQuads(patch.inserts, WebId)
Extract ==
    /\ phase = "diffed"
    /\ extracted' = extractProfileFromQuads(patch.inserts, WebId)
    /\ phase' = "extracted"
    /\ UNCHANGED <<target, existing, patch, patched, patch2,
                   conditions, n3, candidate, verdict>>
    /\ UNCHANGED handlerVars

\* createN3PatchString(patch.deletes, patch.inserts, conditions)
Serialize ==
    /\ phase = "diffed"
    /\ \E conds \in PatchConditions :
          /\ conditions' = conds
          /\ n3' = createN3PatchString(patch.deletes, patch.inserts, conds)
    /\ phase' = "serialized"
    /\ UNCHANGED <<target, existing, patch, patched, patch2, extracted, candidate, verdict>>
    /\ UNCHANGED handlerVars

\* extractProfileFromQuads(existing, WebId)
ExtractExisting ==
    /\ phase = "input"
    /\ extracted' = extractProfileFromQuads(existing, WebId)
    /\ phase' = "read"
    /\ UNCHANGED <<target, existing, patch, patched, patch2,
                   conditions, n3, candidate, verdict>>
    /\ UNCHANGED handlerVars

NextDiff == Diff \/ Patch \/ Rediff \/ Extract \/ Serialize \/ ExtractExisting

SpecDiff == InitDiff /\ [][NextDiff]_vars

(***************************************************************************)
(* Properties of the diff builder and the extractor (SpecDiff).            *)
(***************************************************************************)
\* the profile fields written as one literal, and their predicates
ScalarFields ==
    {"profileBackgroundColor", "profileHighlightColor", "name", "nickname", "phone",
     "preferredSubjectPronoun", "preferredObjectPronoun", "preferredRelativePronoun",
     "photo", "homepage", "email"}

\* the profile fields written as one named reference per entry
SequenceFields == {"knows", "knowsLanguage", "skills"}

PredicateOf(field) ==
    CASE field = "profileBackgroundColor" -> SOLID \o "profileBackgroundColor"
      [] field = "profileHighlightColor" -> SOLID \o "profileHighlightColor"
      [] field = "name" -> FOAF \o "name"
      [] field = "nickname" -> FOAF \o "nick"
      [] field = "phone" -> VCARD \o "hasTelephone"
      [] field = "preferredSubjectPronoun" -> SOLID \o "preferredSubjectPronoun"
      [] field = "preferredObjectPronoun" -> SOLID \o "preferredObjectPronoun"
      [] field = "preferredRelativePronoun" -> SOLID \o "preferredRelativePronoun"
      [] field = "photo" -> VCARD \o "hasPhoto"
      [] field = "homepage" -> FOAF \o "homepage"
      [] field = "email" -> FOAF \o "mbox"
      [] field = "knows" -> FOAF \o "knows"
      [] field = "knowsLanguage" -> SCHEMA \o "knowsLanguage"
      [] field = "skills" -> SCHEMA \o "skills"
      [] field = "accounts" -> FOAF \o "account"

\* the fields whose predicate the diff builder deletes and inserts on the subject
ManagedFields == ScalarFields \cup SequenceFields \cup {"accounts"}

ManagedPredicates == {PredicateOf(f) : f \in ManagedFields}

\* the single-valued managed predicates
SinglePredicates == {PredicateOf(f) : f \in ScalarFields \ {"email"}}

\* whether a target record supplies a non-empty value for a field
NonEmpty(profile, field) ==
    IF field \in ScalarFields THEN IsPresent(profile[field])
    ELSE IF field \in SequenceFields
    THEN profile[field].t = "array" /\ \E i \in 1..Len(profile[field].a) :
                                            Truthy(profile[field].a[i])
    ELSE profile[field].t = "array" /\ Len(profile[field].a) > 0

\* the statements of a sequence with this subject and predicate
About(quads, subject, predicate) ==
    SelectSeq(quads, LAMBDA q : q.subject = subject /\ q.predicate = namedNode(predicate))

Count(seq, x) == Cardinality({i \in 1..Len(seq) : seq[i] = x})

\* two arrays with the same entries, whatever their order
SameEntries(j1, j2) ==
    /\ j1.t = j2.t
    /\ Len(j1.a) = Len(j2.a)
    /\ \A x \in Range(j1.a) \cup Range(j2.a) : Count(j1.a, x) = Count(j2.a, x)

\* a record's value and the value read back are the same value; a value that
\* is absent, null or empty is read back as absent
SameValue(read, written) ==
    IF IsPresent(written) THEN read = written ELSE read = Undef

\* an array without its empty entries, absent when none is left
Entries(j) ==
    IF j.t = "array" /\ SelectSeq(j.a, LAMBDA e : e \in {Undef, Null, Str("")}) # j.a
    THEN Arr(SelectSeq(j.a, LAMBDA e : e \notin {Undef, Null, Str("")}))
    ELSE Undef

IsValid(profile) == validateProfileData([type |-> "object", fields |-> profile]).valid

\* C1 (as claimed): for every valid record R, extractProfileFromQuads applied to
\* the insertions of createProfilePatch(S, R, empty) returns a record equal to R:
\* scalars equal, knows/knowsLanguage/skills equal as sequences, accounts and
\* organizations equal up to entry order.
C1_RoundTrip ==
    (phase = "extracted" /\ existing = <<>> /\ IsValid(target)) =>
        /\ \A f \in ScalarFields : SameValue(extracted[f], target[f])
        /\ \A f \in SequenceFields :
              SameValue(extracted[f], Entries(target[f]))
        /\ SameEntries(extracted.accounts, Entries(target.accounts))
        /\ SameEntries(extracted.organizations, Entries(target.organizations))

\* C2 (as claimed): when the diff for R is computed against the result of
\* applying the diff for R, its insertion set is empty for every managed scalar
\* and sequence field.
C2_SecondDiffInsertsNothing ==
    phase = "rediffed" =>
        \A f \in ScalarFields \cup SequenceFields :
            About(patch2.inserts, S, PredicateOf(f)) = <<>>

\* C2 (amended): the second diff inserts, for every managed scalar and sequence
\* field, the same statements as the first (none exactly when the record has no
\* non-empty value for the field), deletes exactly those statements, and applying
\* it leaves the document's statements of those predicates as they were.
C2_SecondDiffRepeatsFirst ==
    phase = "rediffed" =>
        \A f \in ScalarFields \cup SequenceFields :
            LET p == PredicateOf(f) IN
            /\ About(patch2.inserts, S, p) = About(patch.inserts, S, p)
            /\ (About(patch2.inserts, S, p) = <<>>) <=> ~NonEmpty(target, f)
            /\ Range(About(patch2.deletes, S, p)) = Range(About(patch.inserts, S, p))
            /\ Range(About(ApplyPatch(patched, patch2), S, p))
                   = Range(About(patched, S, p))

\* a second diff of a record with two skills and an empty knowsLanguage entry
C2_Witness ==
    /\ phase = "rediffed"
    /\ Len(target.skills.a) = 2
    /\ Len(About(patch2.inserts, S, SCHEMA \o "skills")) = 2
    /\ Len(About(patch2.inserts, S, SCHEMA \o "knowsLanguage")) = 1

BobName == quad(S, namedNode(FOAF \o "name"), literal("Bob"))
AliceNick == quad(S, namedNode(FOAF \o "nick"), literal("AL"))

\* C3: for every managed predicate p, every existing statement with the subject
\* and p is in the deletions whatever the target says, and the insertions hold a
\* statement of p exactly when the target value is non-empty; existing
\* (S, foaf:name, "Alice") with target {name: "Bob"} gives exactly that deletion
\* and the insertion (S, foaf:name, "Bob").
C3_ReplaceNotMerge ==
    phase = "diffed" =>
        /\ \A f \in ManagedFields :
              LET p == PredicateOf(f) IN
              /\ \A i \in 1..Len(existing) :
                    (existing[i].subject = S /\ existing[i].predicate = namedNode(p))
                        => existing[i] \in Range(patch.deletes)
              /\ (About(patch.inserts, S, p) # <<>>) <=> NonEmpty(target, f)
        /\ (existing = << AliceName >> /\ target = [EmptyProfile EXCEPT !.name = Str("Bob")])
              => (patch.deletes = << AliceName >> /\ patch.inserts = << BobName >>)

\* a target that omits nickname, diffed against a document with a nickname:
\* the nickname is deleted and nothing is inserted for it
C3_Witness ==
    /\ phase = "diffed"
    /\ target.name = Str("Bob")
    /\ target.nickname = Undef
    /\ AliceNick \in Range(existing)
    /\ AliceNick \in Range(patch.deletes)
    /\ BobName \in Range(patch.inserts)

ZedName == quad(namedNode(OtherId), namedNode(FOAF \o "name"), literal("Zed"))

IndexOfSub(s, sub) ==
    IF Includes(s, sub)
    THEN CHOOSE i \in 1..Len(s) :
            /\ SubSeq(s, i, i + Len(sub) - 1) = sub
            /\ \A j \in 1..(i - 1) : SubSeq(s, j, j + Len(sub) - 1) # sub
    ELSE 0

\* getProfileDocumentUrl: the WebID without its fragment
getProfileDocumentUrl(webId) ==
    IF IndexOf(webId, "#") > 0 THEN SubSeq(webId, 1, IndexOf(webId, "#") - 1) ELSE webId

\* the match of /^data:image\/([^;]+);base64,(.+)$/ on a photo: whether it
\* matches, and the format and the data it captures
DataUriMatch(photo) ==
    LET rest == Slice(photo, Len("data:image/"))
        semi == IndexOf(rest, ";")
        after == Slice(rest, semi - 1)
        data == Slice(after, Len(";base64,"))
    IN IF /\ StartsWith(photo, "data:image/")
          /\ semi > 1
          /\ StartsWith(after, ";base64,")
          /\ Len(data) > 0
          /\ \A i \in 1..Len(data) : CharAt(data, i) \notin {"\n", "\r"}
       THEN [matches |-> TRUE, format |-> SubSeq(rest, 1, semi - 1),
             base64Data |-> Slice(after, Len(";base64,"))]
       ELSE [matches |-> FALSE, format |-> "", base64Data |-> ""]

\* whether handle stores the photo as an image resource
IsUpload(photo) == Truthy(photo) /\ DataUriMatch(photo.v).matches

\* imagePath: under the pod root, named by a fresh identifier and the format
ImagePath(webId, photo, imageId) ==
    LET docUrl == getProfileDocumentUrl(webId)
        podBaseUrl == IF Includes(docUrl, "/profile")
                      THEN SubSeq(docUrl, 1, IndexOfSub(docUrl, "/profile") - 1)
                      ELSE docUrl
    IN podBaseUrl \o "/profile/images/" \o imageId \o "." \o DataUriMatch(photo).format

\* v4(): the n-th identifier generated
Uuid(n) == "uuid-" \o IntStr(n)

\* ProfileWithPhoto with the account email used only when the record has none
ProfileWithPhoto_CallerEmail(profile, photo, mail) ==
    [profile EXCEPT !.photo = photo,
                    !.email = IF Truthy(mail) /\ ~Truthy(@) THEN mail ELSE @]

\* profileWithPhoto: the record with the processed photo and the account email
ProfileWithPhoto(profile, photo, mail) ==
    [profile EXCEPT !.photo = photo, !.email = IF Truthy(mail) THEN mail ELSE @]

TypePerson(webId) ==
    quad(namedNode(webId), namedNode(RDF \o "type"), namedNode(FOAF \o "Person"))

\* DocumentWrite with the patch of an existing document computed against no
\* statements, as the new document's is
DocumentWrite_NoExisting(webId, profile, quads, exists, counter) ==
    LET patchData == createProfilePatch(webId, profile, <<>>, counter) IN
    IF exists
    THEN [mutation |-> [op |-> "modifyResource", path |-> getProfileDocumentUrl(webId),
                        deletes |-> patchData.deletes, inserts |-> patchData.inserts],
          blankCounter |-> patchData.blankCounter]
    ELSE [mutation |-> [op |-> "setRepresentation", path |-> getProfileDocumentUrl(webId),
                        deletes |-> <<>>,
                        inserts |-> << TypePerson(webId) >> \o patchData.inserts],
          blankCounter |-> patchData.blankCounter]

\* the document mutation handle prepares once the read has completed: a patch
\* of the existing document, or a new document
DocumentWrite(webId, profile, quads, exists, counter) ==
    IF exists
    THEN LET patchData == createProfilePatch(webId, profile, quads, counter)
         IN [mutation |-> [op |-> "modifyResource", path |-> getProfileDocumentUrl(webId),
                           deletes |-> patchData.deletes, inserts |-> patchData.inserts],
             blankCounter |-> patchData.blankCounter]
    ELSE LET patchData == createProfilePatch(webId, profile, <<>>, counter)
         IN [mutation |-> [op |-> "setRepresentation", path |-> getProfileDocumentUrl(webId),
                           deletes |-> <<>>,
                           inserts |-> << TypePerson(webId) >> \o patchData.inserts],
             blankCounter |-> patchData.blankCounter]

RECURSIVE Join(_, _)
Join(strings, sep) ==
    IF Len(strings) = 0 THEN ""
    ELSE IF Len(strings) = 1 THEN strings[1]
    ELSE strings[1] \o sep \o Join(Tail(strings), sep)

\* getRepresentation of the profile document
ReadCall ==
    [op |-> "getRepresentation", path |-> getProfileDocumentUrl(WebId),
     deletes |-> <<>>, inserts |-> <<>>]

BadRequest(message) ==
    [status |-> "BadRequestHttpError", message |-> message, profile |-> EmptyProfile]

StoreError == [status |-> "InternalServerError", message |-> "", profile |-> EmptyProfile]

(***************************************************************************)
(* ProfileHandler.handle: one action per await.                            *)
(***************************************************************************)
\* HandleStart without the validation: every input goes on to the lookups
HandleStart_Unvalidated(r, data) ==
    /\ pc[r] = "idle"
    /\ IF r = 1 THEN TRUE ELSE pc[r - 1] # "idle"
    /\ json' = [json EXCEPT ![r] = data]
    /\ pc' = [pc EXCEPT ![r] = "findLinks"]
    /\ UNCHANGED <<email, photoUrl, existingQuads, documentExists, pending, calls, response>>
    /\ UNCHANGED <<storeVars, diffVars, viewVars>>

\* HandleStart with the identity link resolved before the input is validated
HandleStart_LinkFirst(r, data) ==
    /\ pc[r] = "idle"
    /\ IF r = 1 THEN TRUE ELSE pc[r - 1] # "idle"
    /\ json' = [json EXCEPT ![r] = data]
    /\ LET validation == validateProfileData(data) IN
       IF ~hasLink
       THEN /\ pc' = [pc EXCEPT ![r] = "failed"]
            /\ response' = [response EXCEPT ![r] = BadRequest(
                   "No WebID linked to this account. Please create a pod first by visiting the pod creation page.")]
       ELSE IF ~validation.valid
       THEN /\ pc' = [pc EXCEPT ![r] = "failed"]
            /\ response' = [response EXCEPT ![r] =
                   BadRequest("Invalid profile data: " \o Join(validation.errors, ", "))]
       ELSE /\ pc' = [pc EXCEPT ![r] = "findLinks"]
            /\ UNCHANGED response
    /\ UNCHANGED <<email, photoUrl, existingQuads, documentExists, pending, calls>>
    /\ UNCHANGED <<storeVars, diffVars, viewVars>>

\* handle is called: the input is validated before the first await
HandleStart(r, data) ==
    /\ pc[r] = "idle"
    /\ IF r = 1 THEN TRUE ELSE pc[r - 1] # "idle"
    /\ json' = [json EXCEPT ![r] = data]
    /\ LET validation == validateProfileData(data) IN
       IF ~validation.valid
       THEN /\ pc' = [pc EXCEPT ![r] = "failed"]
            /\ response' = [response EXCEPT ![r] =
                   BadRequest("Invalid profile data: " \o Join(validation.errors, ", "))]
       ELSE /\ pc' = [pc EXCEPT ![r] = "findLinks"]
            /\ UNCHANGED response
    /\ UNCHANGED <<email, photoUrl, existingQuads, documentExists, pending, calls>>
    /\ UNCHANGED <<storeVars, diffVars, viewVars>>

\* webIdStore.findLinks resolves
FindLinks(r) ==
    /\ pc[r] = "findLinks"
    /\ IF ~hasLink
       THEN /\ pc' = [pc EXCEPT ![r] = "failed"]
            /\ response' = [response EXCEPT ![r] = BadRequest(
                   "No WebID linked to this account. Please create a pod first by visiting the pod creation page.")]
       ELSE /\ pc' = [pc EXCEPT ![r] = "findByAccount"]
            /\ UNCHANGED response
    /\ UNCHANGED <<json, email, photoUrl, existingQuads, documentExists, pending, calls>>
    /\ UNCHANGED <<storeVars, diffVars, viewVars>>

\* after the email lookup: the next await is the image store or the read
AfterEmail(r, mail) ==
    /\ email' = [email EXCEPT ![r] = mail]
    /\ photoUrl' = [photoUrl EXCEPT ![r] = json[r].fields.photo]
    /\ pc' = [pc EXCEPT ![r] =
           IF IsUpload(json[r].fields.photo) THEN "setImage" ELSE "getRepresentation"]
    /\ UNCHANGED <<json, existingQuads, documentExists, pending, calls, response>>
    /\ UNCHANGED <<storeVars, diffVars, viewVars>>

\* passwordStore.findByAccount resolves
FindByAccount(r) ==
    /\ pc[r] = "findByAccount"
    /\ AfterEmail(r, IF accountEmail # "" THEN Str(accountEmail) ELSE Undef)

\* FindByAccountFails with the error of the lookup thrown on
FindByAccountFails_Throws(r) ==
    /\ pc[r] = "findByAccount"
    /\ pc' = [pc EXCEPT ![r] = "failed"]
    /\ response' = [response EXCEPT ![r] = StoreError]
    /\ UNCHANGED <<json, email, photoUrl, existingQuads, documentExists, pending, calls>>
    /\ UNCHANGED <<storeVars, diffVars, viewVars>>

\* passwordStore.findByAccount rejects: the error is logged and swallowed
FindByAccountFails(r) ==
    /\ pc[r] = "findByAccount"
    /\ AfterEmail(r, Undef)

\* resourceStore.setRepresentation of the decoded image resolves
SetImage(r) ==
    /\ pc[r] = "setImage"
    /\ LET imagePath == ImagePath(WebId, json[r].fields.photo.v, Uuid(uuidCounter)) IN
       /\ images' = images \cup {imagePath}
       /\ photoUrl' = [photoUrl EXCEPT ![r] = Str(imagePath)]
       /\ calls' = [calls EXCEPT ![r] = Append(@,
              [op |-> "setRepresentation", path |-> imagePath,
               deletes |-> <<>>, inserts |-> <<>>])]
    /\ uuidCounter' = uuidCounter + 1
    /\ pc' = [pc EXCEPT ![r] = "getRepresentation"]
    /\ UNCHANGED <<json, email, existingQuads, documentExists, pending, response>>
    /\ UNCHANGED <<docExists, docQuads, hasLink, accountEmail, blankCounter, diffVars, viewVars>>

\* resourceStore.getRepresentation of the document resolves, or rejects with
\* NotFoundHttpError; the mutation is prepared in the same turn
GetRepresentation(r) ==
    /\ pc[r] = "getRepresentation"
    /\ LET quads == IF docExists THEN docQuads ELSE <<>>
           write == DocumentWrite(WebId,
                        ProfileWithPhoto(json[r].fields, photoUrl[r], email[r]),
                        quads, docExists, blankCounter)
       IN /\ existingQuads' = [existingQuads EXCEPT ![r] = quads]
          /\ documentExists' = [documentExists EXCEPT ![r] = docExists]
          /\ pending' = [pending EXCEPT ![r] = write.mutation]
          /\ blankCounter' = write.blankCounter
    /\ calls' = [calls EXCEPT ![r] = Append(@, ReadCall)]
    /\ pc' = [pc EXCEPT ![r] = "write"]
    /\ UNCHANGED <<json, email, photoUrl, response>>
    /\ UNCHANGED <<docExists, docQuads, images, hasLink, accountEmail, uuidCounter, diffVars, viewVars>>

\* GetRepresentationFails with the read tried again instead of the error
\* rethrown
GetRepresentationFails_Retries(r) ==
    /\ pc[r] = "getRepresentation"
    /\ Len(calls[r]) < 3
    /\ calls' = [calls EXCEPT ![r] = Append(@, ReadCall)]
    /\ UNCHANGED <<pc, json, email, photoUrl, existingQuads, documentExists, pending,
                   response>>
    /\ UNCHANGED <<storeVars, diffVars, viewVars>>

\* resourceStore.getRepresentation rejects with another error: rethrown
GetRepresentationFails(r) ==
    /\ pc[r] = "getRepresentation"
    /\ pc' = [pc EXCEPT ![r] = "failed"]
    /\ response' = [response EXCEPT ![r] = StoreError]
    /\ calls' = [calls EXCEPT ![r] = Append(@, ReadCall)]
    /\ UNCHANGED <<json, email, photoUrl, existingQuads, documentExists, pending>>
    /\ UNCHANGED <<storeVars, diffVars, viewVars>>

\* the returned record: the input with the processed photo
Returned(r) ==
    [status |-> "ok", message |-> "",
     profile |-> [json[r].fields EXCEPT !.photo = photoUrl[r]]]

\* resourceStore.modifyResource resolves: the patch is applied to the
\* document as it is now, which holds every statement the patch deletes (the
\* store refuses an N3 patch whose deletions are not all in the document)
ModifyResource(r) ==
    /\ pc[r] = "write"
    /\ pending[r].op = "modifyResource"
    /\ Range(pending[r].deletes) \subseteq Range(docQuads)
    /\ docQuads' = ApplyPatch(docQuads, pending[r])
    /\ calls' = [calls EXCEPT ![r] = Append(@, pending[r])]
    /\ pc' = [pc EXCEPT ![r] = "done"]
    /\ response' = [response EXCEPT ![r] = Returned(r)]
    /\ UNCHANGED <<json, email, photoUrl, existingQuads, documentExists, pending>>
    /\ UNCHANGED <<docExists, images, hasLink, accountEmail, blankCounter, uuidCounter,
                   diffVars, viewVars>>

\* resourceStore.setRepresentation of the new document resolves
SetRepresentation(r) ==
    /\ pc[r] = "write"
    /\ pending[r].op = "setRepresentation"
    /\ docExists' = TRUE
    /\ docQuads' = pending[r].inserts
    /\ calls' = [calls EXCEPT ![r] = Append(@, pending[r])]
    /\ pc' = [pc EXCEPT ![r] = "done"]
    /\ response' = [response EXCEPT ![r] = Returned(r)]
    /\ UNCHANGED <<json, email, photoUrl, existingQuads, documentExists, pending>>
    /\ UNCHANGED <<images, hasLink, accountEmail, blankCounter, uuidCounter, diffVars, viewVars>>

\* the document mutation rejects (the store refuses the patch or fails): the
\* error reaches the caller and the document is as it was
WriteFails(r) ==
    /\ pc[r] = "write"
    /\ pc' = [pc EXCEPT ![r] = "failed"]
    /\ response' = [response EXCEPT ![r] = StoreError]
    /\ calls' = [calls EXCEPT ![r] = Append(@, pending[r])]
    /\ UNCHANGED <<json, email, photoUrl, existingQuads, documentExists, pending>>
    /\ UNCHANGED <<storeVars, diffVars, viewVars>>

(***************************************************************************)
(* ProfileHandler.getView: one action per await.                           *)
(***************************************************************************)
NoWebId ==
    "No WebID linked to this account. Please create a pod first by visiting the pod creation page."

\* webIdStore.findLinks resolves
ViewFindLinks ==
    /\ viewPc = "idle"
    /\ IF ~hasLink
       THEN /\ viewPc' = "failed"
            /\ viewResult' = [status |-> "BadRequestHttpError", message |-> NoWebId,
                              webId |-> "", profile |-> EmptyProfile]
       ELSE /\ viewPc' = "findByAccount"
            /\ UNCHANGED viewResult
    /\ UNCHANGED <<viewEmail, viewCalls>>
    /\ UNCHANGED <<storeVars, requestVars, diffVars>>

\* passwordStore.findByAccount resolves
ViewFindByAccount ==
    /\ viewPc = "findByAccount"
    /\ viewEmail' = IF accountEmail # "" THEN Str(accountEmail) ELSE Undef
    /\ viewPc' = "getRepresentation"
    /\ UNCHANGED <<viewCalls, viewResult>>
    /\ UNCHANGED <<storeVars, requestVars, diffVars>>

\* ViewFindByAccountFails with the error of the lookup thrown on
ViewFindByAccountFails_Throws ==
    /\ viewPc = "findByAccount"
    /\ viewPc' = "failed"
    /\ viewResult' = [status |-> "InternalServerError", message |-> "", webId |-> "",
                      profile |-> EmptyProfile]
    /\ UNCHANGED <<viewEmail, viewCalls>>
    /\ UNCHANGED <<storeVars, requestVars, diffVars>>

\* passwordStore.findByAccount rejects: the error is logged and swallowed
ViewFindByAccountFails ==
    /\ viewPc = "findByAccount"
    /\ viewEmail' = Undef
    /\ viewPc' = "getRepresentation"
    /\ UNCHANGED <<viewCalls, viewResult>>
    /\ UNCHANGED <<storeVars, requestVars, diffVars>>

\* resourceStore.getRepresentation resolves: the profile is extracted and
\* the account email, if any, put in its place
ViewGetRepresentation ==
    /\ viewPc = "getRepresentation"
    /\ docExists
    /\ LET profile == extractProfileFromQuads(docQuads, WebId) IN
       viewResult' = [status |-> "ok", message |-> "", webId |-> WebId,
                      profile |-> IF Truthy(viewEmail)
                                  THEN [profile EXCEPT !.email = viewEmail]
                                  ELSE profile]
    /\ viewCalls' = Append(viewCalls, ReadCall)
    /\ viewPc' = "done"
    /\ UNCHANGED viewEmail
    /\ UNCHANGED <<storeVars, requestVars, diffVars>>

\* ViewNotFound with the NotFoundHttpError thrown on like any other error
ViewNotFound_Rethrows ==
    /\ viewPc = "getRepresentation"
    /\ ~docExists
    /\ viewResult' = [status |-> "NotFoundHttpError", message |-> "", webId |-> "",
                      profile |-> EmptyProfile]
    /\ viewCalls' = Append(viewCalls, ReadCall)
    /\ viewPc' = "failed"
    /\ UNCHANGED viewEmail
    /\ UNCHANGED <<storeVars, requestVars, diffVars>>

\* resourceStore.getRepresentation rejects with NotFoundHttpError: an empty
\* profile, with the account email if any, is returned
ViewNotFound ==
    /\ viewPc = "getRepresentation"
    /\ ~docExists
    /\ viewResult' = [status |-> "ok", message |-> "", webId |-> WebId,
                      profile |-> IF Truthy(viewEmail)
                                  THEN [EmptyProfile EXCEPT !.email = viewEmail]
                                  ELSE EmptyProfile]
    /\ viewCalls' = Append(viewCalls, ReadCall)
    /\ viewPc' = "done"
    /\ UNCHANGED viewEmail
    /\ UNCHANGED <<storeVars, requestVars, diffVars>>

\* resourceStore.getRepresentation rejects with another error: rethrown
ViewGetRepresentationFails ==
    /\ viewPc = "getRepresentation"
    /\ viewResult' = [status |-> "InternalServerError", message |-> "", webId |-> "",
                      profile |-> EmptyProfile]
    /\ viewCalls' = Append(viewCalls, ReadCall)
    /\ viewPc' = "failed"
    /\ UNCHANGED viewEmail
    /\ UNCHANGED <<storeVars, requestVars, diffVars>>

(***************************************************************************)
(* Spec: inputs.                                                           *)
(***************************************************************************)
Object(profile) == [type |-> "object", fields |-> profile]

TwitterAccount == Account("Twitter", "alice")

EngineerRole == [EmptyOrg EXCEPT !.organization = Str(OrgUri), !.role = Str("Engineer")]

PngPhoto == "data:image/png;base64,iVBORw0KGgo="

\* a base64 image data URI without data
EmptyPngPhoto == "data:image/png;base64,"

\* the inputs of the write requests; the last one is invalid
WriteInputs ==
    { Object([EmptyProfile EXCEPT !.name = Str("Bob"),
                                  !.organizations = Arr(<< EngineerRole >>)]),
      Object([EmptyProfile EXCEPT !.name = Str("Carol"),
                                  !.accounts = Arr(<< TwitterAccount >>)]),
      Object([EmptyProfile EXCEPT !.photo = Str(PngPhoto),
                                  !.email = Str("mallory@example.org")]),
      Object([EmptyProfile EXCEPT !.photo = Str(EmptyPngPhoto)]),
      Object([EmptyProfile EXCEPT !.profileBackgroundColor = Str("red"),
                                  !.photo = Str(PngPhoto)]) }

\* the documents the store may hold when the first request arrives
InitialDocuments ==
    { << TypePerson(WebId) >>,
      << TypePerson(WebId),
         quad(S, namedNode(FOAF \o "name"), langLiteral("Alicia", "es")),
         AliceName,
         quad(S, namedNode(FOAF \o "mbox"), namedNode("mailto:old@example.org")),
         quad(S, namedNode(VCARD \o "hasEmail"), namedNode("mailto:v@example.org")),
         quad(S, namedNode(FOAF \o "img"), namedNode("https://alice.example/old.png")),
         quad(namedNode(OtherId), namedNode(FOAF \o "name"), literal("Zed")) >> }

Init ==
    /\ phase = "input"
    /\ target = EmptyProfile
    /\ existing = <<>>
    /\ patch = EmptyPatch
    /\ patched = <<>>
    /\ patch2 = EmptyPatch
    /\ extracted = EmptyProfile
    /\ conditions = <<>>
    /\ n3 = ""
    /\ candidate = NoData
    /\ verdict = NoValidation
    /\ NoRequests
    /\ \/ docExists = FALSE /\ docQuads = <<>>
       \/ docExists = TRUE /\ docQuads \in InitialDocuments
    /\ images = {}
    /\ hasLink \in BOOLEAN
    /\ accountEmail \in {"", "alice@example.org"}
    /\ blankCounter = 0
    /\ uuidCounter = 0

Next ==
    \/ \E r \in Requests, data \in WriteInputs : HandleStart(r, data)
    \/ \E r \in Requests : FindLinks(r)
    \/ \E r \in Requests : FindByAccount(r)
    \/ \E r \in Requests : FindByAccountFails(r)
    \/ \E r \in Requests : SetImage(r)
    \/ \E r \in Requests : GetRepresentation(r)
    \/ \E r \in Requests : GetRepresentationFails(r)
    \/ \E r \in Requests : ModifyResource(r)
    \/ \E r \in Requests : SetRepresentation(r)
    \/ \E r \in Requests : WriteFails(r)
    \/ ViewFindLinks
    \/ ViewFindByAccount
    \/ ViewFindByAccountFails
    \/ ViewGetRepresentation
    \/ ViewNotFound
    \/ ViewGetRepresentationFails

Spec == Init /\ [][Next]_vars

(***************************************************************************)
(* SpecValidate: validateProfileData applied to drawn candidate values.    *)
(***************************************************************************)
\* candidate records, valid and with one or several violations, and two
\* candidates that are no records
Candidates ==
    { Object([EmptyProfile EXCEPT !.profileBackgroundColor = color,
                                  !.profileHighlightColor = highlight,
                                  !.photo = photo, !.homepage = homepage,
                                  !.knows = knows, !.phone = phone,
                                  !.skills = skills]) :
        color \in {Undef, Str("red"), Str("#AA00ff"), Null},
        highlight \in {Undef, Str("#00000")},
        photo \in {Undef, Str(""), Str("not-a-url"), Str(PngPhoto), Num("1")},
        homepage \in {Undef, Str("example")},
        knows \in {Undef, Str("x"), Arr(<< Str("not-a-uri") >>),
                   Arr(<< Str(OtherId), Str("not-a-uri"), Str("also bad") >>)},
        phone \in {Undef, Num("5")},
        skills \in {Undef, Str("tla")} }
    \cup { [type |-> "null", fields |-> EmptyProfile],
           [type |-> "string", fields |-> EmptyProfile] }

InitValidate ==
    /\ phase = "input"
    /\ candidate \in Candidates
    /\ verdict = NoValidation
    /\ target = EmptyProfile
    /\ existing = <<>>
    /\ patch = EmptyPatch
    /\ patched = <<>>
    /\ patch2 = EmptyPatch
    /\ extracted = EmptyProfile
    /\ conditions = <<>>
    /\ n3 = ""
    /\ NoRequests
    /\ docExists = FALSE /\ docQuads = <<>> /\ images = {}
    /\ hasLink = TRUE /\ accountEmail = ""
    /\ blankCounter = 0 /\ uuidCounter = 0

\* validateProfileData(candidate)
Validate ==
    /\ phase = "input"
    /\ verdict' = validateProfileData(candidate)
    /\ phase' = "validated"
    /\ UNCHANGED <<target, existing, patch, patched, patch2, extracted,
                   conditions, n3, candidate>>
    /\ UNCHANGED handlerVars

NextValidate == Validate

SpecValidate == InitValidate /\ [][NextValidate]_vars

(***************************************************************************)
(* Properties of the write path (Spec).                                    *)
(***************************************************************************)
DocPath == getProfileDocumentUrl(WebId)

\* the step in which the document mutation of request r reaches the store
Applies(r) == pc[r] = "write" /\ pc'[r] = "done"

\* the document had not changed since request r read it
FreshRead(r) == documentExists[r] = docExists /\ existingQuads[r] = docQuads

\* the record request r writes
Written(r) == ProfileWithPhoto(json[r].fields, photoUrl[r], email[r])

\* the statements of the subject with a scalar or sequence predicate
ScalarAndSequence(quads) ==
    {q \in Range(quads) :
        /\ q.subject = S
        /\ q.predicate.value \in {PredicateOf(f) : f \in ScalarFields \cup SequenceFields}}

\* the document request r would leave had it read the document as it is now
Alone(r) ==
    LET write == DocumentWrite(WebId, Written(r), docQuads, docExists, blankCounter).mutation
    IN IF docExists THEN ApplyPatch(docQuads, write) ELSE write.inserts

\* C5 (as claimed): once a write has succeeded, the document holds at most one
\* statement of the subject for each single-valued managed predicate, after any
\* sequence of successful writes.
C5_SingleValued ==
    (\E r \in Requests : pc[r] = "done") =>
        \A p \in SinglePredicates : Len(About(docQuads, S, p)) <= 1

\* the subjects of the statements (r, org:member, S)
RoleNodesOf(quads) ==
    {q.subject : q \in {x \in Range(quads) :
                           x.predicate = namedNode(ORG \o "member") /\ x.object = S}}

\* C6 (as claimed): after a write whose record includes organizations, the role
\* nodes with an org:member link to the subject are exactly those the write
\* created (those of earlier writes are deleted).
C6_RolesReplaced ==
    [][\A r \in Requests :
          (Applies(r) /\ FreshRead(r) /\ Truthy(json[r].fields.organizations))
              => RoleNodesOf(docQuads') = RoleNodesOf(pending[r].inserts)]_vars

\* the objects of the statements (S, foaf:account, n)
AccountNodesOf(quads) ==
    {q.object : q \in {x \in Range(quads) :
                          x.subject = S /\ x.predicate = namedNode(FOAF \o "account")}}

\* C7 (as claimed): after a write against a present document the account links
\* of the subject are exactly the account nodes of that write, and no statement
\* of an account node of an earlier write is left in the document.
C7_AccountsReplaced ==
    [][\A r \in Requests :
          (Applies(r) /\ FreshRead(r) /\ documentExists[r])
              => /\ AccountNodesOf(docQuads') = AccountNodesOf(pending[r].inserts)
                 /\ \A n \in AccountNodesOf(docQuads) :
                       \A q \in Range(docQuads') : q.subject # n /\ q.object # n]_vars

\* C8: a request whose input fails validation has failed with a BadRequest error
\* that lists the violations, and has made no call of the store: no image and
\* no document was written.
C8_InvalidWritesNothing ==
    \A r \in Requests :
        (pc[r] # "idle" /\ ~validateProfileData(json[r]).valid) =>
            /\ pc[r] = "failed"
            /\ response[r].status = "BadRequestHttpError"
            /\ StartsWith(response[r].message, "Invalid profile data: ")
            /\ calls[r] = <<>>

\* an invalid request that carries a base64 image has failed and nothing is stored
C8_Witness ==
    \E r \in Requests :
        /\ pc[r] = "failed"
        /\ ~validateProfileData(json[r]).valid
        /\ IsUpload(json[r].fields.photo)
        /\ images = {}
        /\ docExists = FALSE

\* C9: a request that succeeded made exactly two calls on the document, the
\* read and then one mutation: modifyResource with the diff against the
\* statements read when the read found the document, and otherwise
\* setRepresentation of the type assertion followed by the insertions of the
\* diff against no statements.
C9_OneMutationAfterRead ==
    \A r \in Requests :
        pc[r] = "done" =>
            LET onDoc == SelectSeq(calls[r], LAMBDA c : c.path = DocPath) IN
            /\ Len(onDoc) = 2
            /\ onDoc[1].op = "getRepresentation"
            /\ onDoc[2] = calls[r][Len(calls[r])]
            /\ \E n \in 0..blankCounter :
                  LET diff == createProfilePatch(WebId, Written(r), existingQuads[r], n)
                      fresh == createProfilePatch(WebId, Written(r), <<>>, n)
                  IN IF documentExists[r]
                     THEN /\ onDoc[2].op = "modifyResource"
                          /\ onDoc[2].deletes = diff.deletes
                          /\ onDoc[2].inserts = diff.inserts
                     ELSE /\ onDoc[2].op = "setRepresentation"
                          /\ onDoc[2].deletes = <<>>
                          /\ onDoc[2].inserts = << TypePerson(WebId) >> \o fresh.inserts

\* one request has created the document and another has patched it, deleting
\* statements it had read
C9_Witness ==
    \E r1, r2 \in Requests :
        /\ pc[r1] = "done" /\ pc[r2] = "done"
        /\ ~documentExists[r1]
        /\ calls[r1][Len(calls[r1])].op = "setRepresentation"
        /\ documentExists[r2]
        /\ calls[r2][Len(calls[r2])].op = "modifyResource"
        /\ calls[r2][Len(calls[r2])].deletes # <<>>

\* C10 (as claimed): when the document changed between a request's read and its
\* mutation (two writes raced), the mutation leaves the managed statements the
\* request would have left had it run alone after the other.
C10_LastWriteWins ==
    [][\A r \in Requests :
          (Applies(r) /\ ~FreshRead(r))
              => ScalarAndSequence(docQuads') = ScalarAndSequence(Alone(r))]_vars

(***************************************************************************)
(* Properties of the read path and of the failures (Spec).                 *)
(***************************************************************************)
\* the calls a request made that change the profile document
DocumentMutations(r) ==
    SelectSeq(calls[r], LAMBDA c : c.path = DocPath /\ c.op # "getRepresentation")

\* the calls a request made that store an image
ImageWrites(r) ==
    SelectSeq(calls[r], LAMBDA c : c.path # DocPath /\ c.op = "setRepresentation")

\* C11: getView without an identity link fails with the no-identity error
\* before the store is read; a read that finds no document is recovered: the
\* call returns the identity URI and a profile that is empty except for the
\* account email when the lookup gave one; any other failure of the read
\* reaches the caller as the store threw it.
C11_ViewNotFoundRecovered ==
    /\ (viewPc # "idle" /\ ~hasLink) =>
           /\ viewPc = "failed"
           /\ viewResult.status = "BadRequestHttpError"
           /\ viewResult.message = NoWebId
           /\ viewCalls = <<>>
    /\ (viewPc \in {"done", "failed"} /\ hasLink) => viewCalls = << ReadCall >>
    /\ (viewPc \in {"done", "failed"} /\ hasLink /\ ~docExists) =>
           \/ /\ viewPc = "done"
              /\ viewResult.status = "ok"
              /\ viewResult.webId = WebId
              /\ viewResult.profile = IF Truthy(viewEmail)
                                      THEN [EmptyProfile EXCEPT !.email = viewEmail]
                                      ELSE EmptyProfile
           \/ /\ viewPc = "failed"
              /\ viewResult.status = "InternalServerError"
    /\ (viewPc = "failed" /\ hasLink) => viewResult.status = "InternalServerError"

\* getView found no document and returned the account email alone
C11_Witness ==
    /\ viewPc = "done"
    /\ ~docExists
    /\ viewCalls = << ReadCall >>
    /\ viewResult.webId = WebId
    /\ viewResult.profile = [EmptyProfile EXCEPT !.email = Str("alice@example.org")]

\* C12: when the read of the existing document fails with an error other than
\* not-found, handle throws that error, reads no second time, sends no
\* mutation of the document, and leaves the document and the images stored so
\* far (one of them possibly by this request) as they are; the request stays
\* failed.
C12_ReadFailureFatal ==
    [][\A r \in Requests :
          /\ (pc[r] = "getRepresentation" /\ calls'[r] # calls[r]
                  /\ pc'[r] # "write") =>
                /\ pc'[r] = "failed"
                /\ response'[r] = StoreError
                /\ calls'[r] = Append(calls[r], ReadCall)
                /\ DocumentMutations(r)' = <<>>
                /\ pending'[r] = NoCall
                /\ docExists' = docExists /\ docQuads' = docQuads
                /\ images' = images
                /\ \A i \in 1..Len(ImageWrites(r)) : ImageWrites(r)[i].path \in images'
          /\ pc[r] = "failed" => (pc'[r] = "failed" /\ calls'[r] = calls[r])]_vars

\* a request stored its image, then failed at the read of the document
C12_Witness ==
    \E r \in Requests :
        /\ pc[r] = "failed"
        /\ response[r] = StoreError
        /\ Len(calls[r]) = 2
        /\ calls[r][2] = ReadCall
        /\ calls[r][1].path \in images

\* the mailbox statements a request's document mutation inserts
MboxWritten(r) == About(pending[r].inserts, S, FOAF \o "mbox")

\* C13: when the credential lookup gave an email, the mailbox statement a write
\* sends to the document is that of the account email, whatever email the
\* caller's record carries, and the email a read returns is the account email,
\* whatever mailbox statements the document holds.
C13_AccountEmailWins ==
    /\ \A r \in Requests :
          (pc[r] \in {"write", "done"} /\ Truthy(email[r])) =>
              /\ email[r] = Str(accountEmail)
              /\ MboxWritten(r) =
                     << quad(S, namedNode(FOAF \o "mbox"),
                             namedNode("mailto:" \o accountEmail)) >>
              /\ pc[r] = "done" => calls[r][Len(calls[r])] = pending[r]
    /\ (viewPc = "done" /\ Truthy(viewEmail)) =>
          /\ viewEmail = Str(accountEmail)
          /\ viewResult.profile.email = Str(accountEmail)

\* a write whose record carried another email wrote the account email, and a
\* read of a document with another mailbox returned the account email
C13_Witness ==
    /\ \E r \in Requests :
          /\ pc[r] = "done"
          /\ json[r].fields.email = Str("mallory@example.org")
          /\ email[r] = Str("alice@example.org")
          /\ MboxWritten(r) # <<>>
    /\ viewPc = "done"
    /\ viewEmail = Str("alice@example.org")
    /\ viewResult.profile.email = Str("alice@example.org")
    /\ extractProfileFromQuads(docQuads, WebId).email = Str("mallory@example.org")

EndsWith(s, suffix) ==
    Len(s) >= Len(suffix) /\ SubSeq(s, Len(s) - Len(suffix) + 1, Len(s)) = suffix

\* the pod of the identity
PodRoot == "https://alice.example/"

\* C14 (as claimed): a request that succeeded with a photo given as a base64
\* image data URI stored exactly one image, at a path under the pod root that
\* ends in "." and the declared subtype; the photo statement it wrote and the
\* photo of the record it returned are that path.
C14_ImageStored ==
    \A r \in Requests :
        (pc[r] = "done" /\ json[r].fields.photo.t = "string"
            /\ IsBase64Image(json[r].fields.photo.v)) =>
            /\ Len(ImageWrites(r)) = 1
            /\ LET path == ImageWrites(r)[1].path IN
                  /\ path \in images
                  /\ StartsWith(path, PodRoot)
                  /\ \E f \in ImageSubtypes :
                        /\ StartsWith(json[r].fields.photo.v, "data:image/" \o f \o ";")
                        /\ EndsWith(path, "." \o f)
                  /\ Len(About(pending[r].inserts, S, VCARD \o "hasPhoto")) = 1
                  /\ About(pending[r].inserts, S, VCARD \o "hasPhoto")[1].object.value
                        = path
                  /\ response[r].profile.photo = Str(path)

(***************************************************************************)
(* Properties of the extractor, the validator, the serialiser and the      *)
(* diff builder.                                                           *)
(***************************************************************************)
\* the role nodes of the subject with an organization or a role statement
DescribedRoleNodes(quads) ==
    {n \in RoleNodesOf(quads) :
        \E q \in Range(quads) :
            /\ q.subject = n
            /\ q.predicate.value \in {ORG \o "organization", VCARD \o "role"}}

\* C15 (as claimed): extractProfileFromQuads on the statements of an anonymous
\* role node with member, organization and role "Engineer" returns exactly one
\* organizations entry, with that organization and role; and in general it
\* returns one entry per role node that has an organization or a role.
C15_OrganizationExtracted ==
    phase = "read" =>
        /\ Len(extracted.organizations.a) = Cardinality(DescribedRoleNodes(existing))
        /\ existing = RoleExample =>
              extracted.organizations =
                  Arr(<< [EmptyOrg EXCEPT !.organization = Str(OrgUri),
                                          !.role = Str("Engineer")] >>)

\* the checks of the fields of a record that the candidate violates
Violations(profile) ==
    {f \in {"profileBackgroundColor", "profileHighlightColor"} :
        profile[f] # Undef /\ ~(profile[f].t = "string" /\ IsHexColor(profile[f].v))}
    \cup {f \in {"photo"} :
            /\ profile[f] \notin {Undef, Null, Str("")}
            /\ ~(profile[f].t = "string"
                   /\ (isUrl(profile[f].v) \/ IsBase64Image(profile[f].v)))}
    \cup {f \in {"homepage"} :
            /\ profile[f] \notin {Undef, Null, Str("")}
            /\ ~(profile[f].t = "string" /\ isUrl(profile[f].v))}
    \cup {f \in {"knowsLanguage", "skills", "accounts", "organizations", "knows"} :
            profile[f].t \notin {"undefined", "array"}}
    \cup {f \in {"phone"} :
            profile[f] \notin {Undef, Null, Str("")} /\ profile[f].t # "string"}

\* the positions of the knows entries that are no absolute URI strings
Offending(profile) ==
    {i \in 1..Len(profile.knows.a) :
        ~(profile.knows.a[i].t = "string" /\ isUrl(profile.knows.a[i].v))}

KnowsMessage == "Invalid WebID in knows array: "

\* C16: for a record, the error list holds one message for every field check
\* the record violates, starting with the name of the field, and one message
\* for every offending knows entry, naming the entry; valid is true exactly
\* when the list is empty.  {profileBackgroundColor: "red"}, {photo:
\* "not-a-url"} and {knows: ["not-a-uri"]} are invalid and
\* {profileBackgroundColor: "#AA00ff"} is valid.
C16_AllViolationsCollected ==
    /\ phase = "validated" =>
          /\ verdict.valid <=> verdict.errors = <<>>
          /\ candidate.type = "object" =>
                LET profile == candidate.fields
                    fieldErrors == SelectSeq(verdict.errors,
                                       LAMBDA m : ~StartsWith(m, KnowsMessage))
                    knowsErrors == SelectSeq(verdict.errors,
                                       LAMBDA m : StartsWith(m, KnowsMessage))
                IN /\ Len(fieldErrors) = Cardinality(Violations(profile))
                   /\ \A f \in Violations(profile) :
                         \E i \in 1..Len(fieldErrors) :
                             StartsWith(fieldErrors[i], f \o " must be ")
                   /\ Len(knowsErrors) = Cardinality(Offending(profile))
                   /\ \A i \in Offending(profile) :
                         \E k \in 1..Len(knowsErrors) :
                             knowsErrors[k] = KnowsMessage \o profile.knows.a[i].v
    /\ ~IsValid([EmptyProfile EXCEPT !.profileBackgroundColor = Str("red")])
    /\ ~IsValid([EmptyProfile EXCEPT !.photo = Str("not-a-url")])
    /\ ~IsValid([EmptyProfile EXCEPT !.knows = Arr(<< Str("not-a-uri") >>)])
    /\ IsValid([EmptyProfile EXCEPT !.profileBackgroundColor = Str("#AA00ff")])

\* a record with four violated field checks and two offending knows entries
\* was validated
C16_Witness ==
    /\ phase = "validated"
    /\ candidate.type = "object"
    /\ Cardinality(Violations(candidate.fields)) = 4
    /\ Cardinality(Offending(candidate.fields)) = 2
    /\ Len(verdict.errors) = 6
    /\ ~verdict.valid

\* the positions at which sub occurs in s
Occurrences(s, sub) ==
    {i \in 1..(Len(s) - Len(sub) + 1) : SubSeq(s, i, i + Len(sub) - 1) = sub}

Least(set) == CHOOSE i \in set : \A j \in set : i <= j

C18_LookupFailureSwallowed ==
    [][/\ \A r \in Requests :
            /\ (pc[r] = "findByAccount" /\ pc'[r] # pc[r]) =>
                  /\ pc'[r] \in {"setImage", "getRepresentation"}
                  /\ email'[r] \in {Undef, Str(accountEmail)}
                  /\ response'[r] = NoResponse
            /\ (Applies(r) /\ ~Truthy(email[r])) =>
                  \E n \in 0..blankCounter :
                      pending[r] =
                          DocumentWrite(WebId,
                              [json[r].fields EXCEPT !.photo = photoUrl[r]],
                              existingQuads[r], documentExists[r], n).mutation
       /\ (viewPc = "findByAccount" /\ viewPc' # viewPc) =>
              /\ viewPc' = "getRepresentation"
              /\ viewEmail' \in {Undef, Str(accountEmail)}
              /\ viewResult' = NoView
       /\ (viewPc = "getRepresentation" /\ viewPc' = "done" /\ ~Truthy(viewEmail)) =>
              viewResult'.profile =
                  IF docExists THEN extractProfileFromQuads(docQuads, WebId)
                  ELSE EmptyProfile]_vars

\* the lookup of an account that has an email failed for a write and for the
\* read, and both succeeded without the email
C18_Witness ==
    /\ accountEmail # ""
    /\ \E r \in Requests :
          /\ pc[r] = "done"
          /\ email[r] = Undef
          /\ response[r].status = "ok"
    /\ viewPc = "done"
    /\ viewEmail = Undef
    /\ viewResult.status = "ok"

\* the statements the diff is to insert for a sequence field: one named
\* reference per non-empty entry, in the order of the target
ExpectedEntries(profile, field) ==
    IF profile[field].t = "array"
    THEN LET kept == SelectSeq(profile[field].a, LAMBDA e : e.t = "string" /\ e.v # "")
         IN [i \in 1..Len(kept) |->
                quad(S, namedNode(PredicateOf(field)), namedNode(kept[i].v))]
    ELSE <<>>

\* C19 (as claimed): for knows, knowsLanguage and skills the insertions of the
\* diff hold exactly one statement per non-empty entry of the target, a named
\* reference, in target order, and the deletions hold every existing statement
\* of the predicate exactly once.
C19_SequenceFields ==
    phase = "diffed" =>
        \A f \in SequenceFields :
            /\ About(patch.inserts, S, PredicateOf(f)) = ExpectedEntries(target, f)
            /\ About(patch.deletes, S, PredicateOf(f)) = About(existing, S, PredicateOf(f))

\* C20 (as claimed): a write for an account without identity link fails with
\* the no-identity error whether or not its input is valid, and a validation
\* error is reported only to an account that has an identity.
C20_LinkBeforeValidation ==
    \A r \in Requests :
        /\ (pc[r] = "failed" /\ ~hasLink) => response[r].message = NoWebId
        /\ (pc[r] = "failed" /\ StartsWith(response[r].message, "Invalid profile data: "))
              => hasLink

\* C20 (amended): the input is validated before the identity link is
\* resolved.  An invalid input fails with the validation errors whether or
\* not the account has an identity, and the no-identity error is reported
\* only for a valid input; neither failure is preceded by a call of the store.
C20_ValidationBeforeLink ==
    \A r \in Requests :
        /\ (pc[r] # "idle" /\ ~validateProfileData(json[r]).valid) =>
              /\ pc[r] = "failed"
              /\ StartsWith(response[r].message, "Invalid profile data: ")
        /\ (pc[r] \notin {"idle", "findLinks"} /\ validateProfileData(json[r]).valid
                /\ ~hasLink) =>
              /\ pc[r] = "failed"
              /\ response[r] = BadRequest(NoWebId)
              /\ calls[r] = <<>>
        /\ (pc[r] = "failed" /\ response[r].message = NoWebId) =>
              validateProfileData(json[r]).valid

\* without identity link, an invalid input failed with the validation errors
\* and a valid input with the no-identity error
C20_Witness ==
    /\ ~hasLink
    /\ \E r1, r2 \in Requests :
          /\ pc[r1] = "failed"
          /\ ~validateProfileData(json[r1]).valid
          /\ StartsWith(response[r1].message, "Invalid profile data: ")
          /\ pc[r2] = "failed"
          /\ validateProfileData(json[r2]).valid
          /\ response[r2].message = NoWebId

(***************************************************************************)
(* Read after write (Spec).                                                *)
(***************************************************************************)
\* the document is as the write of request r left it: r succeeded, it had
\* read the document as it was, and no write was applied since
LastWrite(r) ==
    /\ pc[r] = "done"
    /\ docExists
    /\ docQuads = IF documentExists[r]
                  THEN ApplyPatch(existingQuads[r], pending[r])
                  ELSE pending[r].inserts

\* C21 (as claimed): a read of the document as a successful write of a record
\* left it returns as photo the photo of the record (the path of the stored
\* image for an upload) and none when the record has no photo, and as email
\* the account email, else the email of the record, else none, whatever photo
\* or mailbox statements the document held before the write.
C21_ReadAfterWrite ==
    [][\A r \in Requests :
          (viewPc = "getRepresentation" /\ viewPc' = "done" /\ LastWrite(r)) =>
              /\ viewResult'.profile.photo =
                     IF IsPresent(photoUrl[r]) THEN photoUrl[r] ELSE Undef
              /\ viewResult'.profile.email =
                     IF Truthy(viewEmail) THEN viewEmail
                     ELSE IF Truthy(email[r]) THEN email[r]
                     ELSE IF Truthy(json[r].fields.email) THEN json[r].fields.email
                     ELSE Undef]_vars

=============================================================================
